---- MODULE Spec2Model ----
(***************************************************************************)
(* Model of docs2stubs/analyzing_transformer.py.                           *)
(*                                                                         *)
(* Three specifications share this module:                                 *)
(*   SpecWalk    - AnalyzingTransformer walking the modules of a package   *)
(*   SpecCombine - _combine_types / _get_repr on bounded type values       *)
(*   SpecPost    - _post_process over the frequency counters               *)
(*                                                                         *)
(* Strings the program builds are modelled as sequences of tokens, dotted  *)
(* addresses as sequences of names (no name contains a dot).               *)
(***************************************************************************)
EXTENDS Integers, Sequences, FiniteSets, TLC

VARIABLES
    \* ---- walker (AnalyzingTransformer + State + _fullmap) ----
    modIdx,             \* index in ModNames of the module being walked (self._modname)
    stack,              \* BaseTransformer context stack: frames [kind, name, sig]
    skipChildren,       \* the last visit_FunctionDef returned False
    _docs,              \* self._docs: address -> Documentation Record
    _classname,         \* self._classname
    parentObj,          \* whether get_top_level_obj resolves self._classname
    _trace_sig,         \* self._trace_sig
    docstrings,         \* state.docstrings: module -> [params, returns, attrs]; the entry
                        \* of the current module is self._paramtyps / _returntyps / _attrtyps
    counters,           \* state.counters: [params, returns, attrs], each typ -> count
    trace_param_types,  \* state.trace_param_types: typ -> set of annotations
    trace_return_types, \* state.trace_return_types: typ -> set of annotations
    _fullmap,           \* module-level _fullmap: [params, returns, attrs]
    imports,            \* state.imports: class name -> module
    nodes,              \* number of source nodes visited so far, modules included
    last,               \* history: the last handler that ran and what it saw
    \* ---- _combine_types ----
    sigtype,            \* argument: the set of traced runtime types
    doctype,            \* argument: the documented string, or None
    simplified,         \* local: what simplify_types returned
    combined,           \* the value _combine_types returned
    cpc,                \* position in _combine_types: "call", "done"
    \* ---- _post_process ----
    maps,               \* load_type_maps(m): [params, returns, attrs], raw -> canonical
    trivialTypes,       \* the raw types for which is_trivial answers True
    dump_all,           \* argument
    include_counts,     \* argument
    results,            \* local results: per section, the list of report lines
    totals,             \* locals total_trivial, total_mapped, total_missed
    trivials,           \* local trivials: raw -> normtype
    processed,          \* loop position: the (section, raw type) pairs already iterated
    calls,              \* history: the collaborator calls made, per (section, raw type)
    saved,              \* what save_fullmap wrote
    ppc                 \* position in _post_process: "idle", "loop", "done"

walkVars == <<modIdx, stack, skipChildren, _docs, _classname, parentObj,
              _trace_sig, docstrings, counters, trace_param_types,
              trace_return_types, _fullmap, imports, nodes, last>>

combineVars == <<sigtype, doctype, simplified, combined, cpc>>

postVars == <<maps, trivialTypes, dump_all, include_counts, results, totals,
              trivials, processed, calls, saved, ppc>>

(***************************************************************************)
(* Bounds                                                                  *)
(***************************************************************************)
MaxNodes == 4
MaxSigTypes == 3
MaxCount == 2

(***************************************************************************)
(* Generic helpers for dicts (functions) and ordered dicts (sequences of   *)
(* <<key, value>> pairs, as Python dicts keep insertion order).            *)
(***************************************************************************)
EmptyMap == <<>>

Put(f, k, v) == (k :> v) @@ f

Remove(f, k) == [x \in DOMAIN f \ {k} |-> f[x]]

Front(s) == SubSeq(s, 1, Len(s) - 1)

Last(s) == s[Len(s)]

\* dict.get(name, None) on an ordered dict; "" stands for None
Lookup(items, name) ==
    IF \E i \in 1..Len(items) : items[i][1] = name
    THEN (CHOOSE p \in {items[i] : i \in 1..Len(items)} : p[1] = name)[2]
    ELSE ""

Values(items) == [i \in 1..Len(items) |-> items[i][2]]

\* number of values of an ordered dict equal to typ
CountOf(items, typ) == Cardinality({i \in 1..Len(items) : items[i][2] = typ})

\* str | None
NoneStr == [isNone |-> TRUE, s |-> <<>>]

Str(toks) == [isNone |-> FALSE, s |-> toks]

\* sep.join(parts), parts a sequence of token sequences
RECURSIVE JoinWith(_, _)
JoinWith(sep, parts) ==
    IF Len(parts) = 0 THEN <<>>
    ELSE IF Len(parts) = 1 THEN parts[1]
    ELSE parts[1] \o <<sep>> \o JoinWith(sep, Tail(parts))

\* every ordering of a finite set, as sequences (iteration order of a Python set)
RECURSIVE Orderings(_)
Orderings(S) ==
    IF S = {} THEN {<<>>}
    ELSE UNION {{<<x>> \o o : o \in Orderings(S \ {x})} : x \in S}

\* s.find(tok) >= 0 for the placeholder names, which are single tokens
Contains(toks, tok) == \E i \in 1..Len(toks) : toks[i] = tok

(***************************************************************************)
(* Runtime type objects: classes, typing generics and typing unions.       *)
(***************************************************************************)
Cls(mod, name) == [k |-> "class", mod |-> mod, name |-> name, args |-> <<>>]

Generic(name, args) == [k |-> "generic", mod |-> <<"typing">>, name |-> name, args |-> args]

Union(args) == [k |-> "union", mod |-> <<"typing">>, name |-> "Union", args |-> args]

T_int == Cls(<<"builtins">>, "int")
T_float == Cls(<<"builtins">>, "float")
T_str == Cls(<<"builtins">>, "str")
T_NoneType == Cls(<<"builtins">>, "NoneType")
np_int64 == Cls(<<"numpy">>, "int64")
np_uint64 == Cls(<<"numpy">>, "uint64")
np_float32 == Cls(<<"numpy">>, "float32")
np_float64 == Cls(<<"numpy">>, "float64")
np_ndarray == Cls(<<"numpy">>, "ndarray")
pd_Series == Cls(<<"pandas", "core", "series">>, "Series")
pd_DataFrame == Cls(<<"pandas", "core", "frame">>, "DataFrame")
sp_spmatrix == Cls(<<"scipy", "sparse", "_base">>, "spmatrix")
sp_csr_matrix == Cls(<<"scipy", "sparse", "_csr">>, "csr_matrix")
sp_csc_matrix == Cls(<<"scipy", "sparse", "_csc">>, "csc_matrix")
\* inspect._empty, the "no annotation" sentinel
Empty == Cls(<<"inspect">>, "_empty")

isUnionType(typ) == typ.k = "union"

\* _UnionGenericAlias is a subclass of _GenericAlias
isGenericAlias(typ) == typ.k \in {"generic", "union"}

_adjust_name(name) ==
    IF name \in {"List", "Dict", "Tuple", "Set"}
    THEN CASE name = "List" -> "list"
           [] name = "Dict" -> "dict"
           [] name = "Tuple" -> "tuple"
           [] name = "Set" -> "set"
    ELSE name

\* typing._type_repr: the qualified name of a class, the bare name for builtins
_type_repr(typ) ==
    IF typ.k = "class" /\ typ.mod = <<"builtins">> THEN <<typ.name>>
    ELSE JoinWith(".", [i \in 1..Len(typ.mod) |-> <<typ.mod[i]>>]) \o <<".", typ.name>>

\* str.replace('NoneType', 'None')
ReplaceNoneType(toks) ==
    [i \in 1..Len(toks) |-> IF toks[i] = "NoneType" THEN "None" ELSE toks[i]]

\* _qualname.sub(r'\1', typ): a dotted prefix is dropped, the last identifier kept
_qualname_sub(toks) ==
    IF Contains(toks, ".")
    THEN LET lastDot == CHOOSE i \in 1..Len(toks) :
                            /\ toks[i] = "."
                            /\ \A j \in (i+1)..Len(toks) : toks[j] # "."
         IN SubSeq(toks, lastDot + 1, Len(toks))
    ELSE toks

RECURSIVE _get_repr(_, _, _)
_get_repr(typ, arraylike, matrixlike) ==
    IF isUnionType(typ)
    THEN JoinWith("|", [i \in 1..Len(typ.args) |-> _get_repr(typ.args[i], FALSE, FALSE)])
    ELSE IF isGenericAlias(typ) /\ typ.name # "" /\ Len(typ.args) > 0
    THEN IF arraylike /\ typ.name = "List"
         THEN <<"ArrayLike">>
         ELSE <<_adjust_name(typ.name), "[">>
              \o JoinWith(", ", [i \in 1..Len(typ.args) |->
                                     _get_repr(typ.args[i], FALSE, FALSE)])
              \o <<"]">>
    ELSE IF arraylike /\ (typ = np_ndarray \/ typ = pd_Series)
    THEN <<"ArrayLike">>
    ELSE IF matrixlike /\ typ \in {np_ndarray, pd_DataFrame, sp_spmatrix,
                                    sp_csr_matrix, sp_csc_matrix}
    THEN <<"MatrixLike">>
    ELSE IF typ = np_int64 \/ typ = np_uint64
    THEN <<"Int">>
    ELSE IF typ = np_float32 \/ typ = np_float64
    THEN <<"Float">>
    ELSE _qualname_sub(ReplaceNoneType(_type_repr(typ)))

RemoveRedundant_KeepsNone(components) ==
    LET drop == IF \E i \in 1..Len(components) : components[i] = <<"Float">>
                THEN {<<"Int">>, <<"int">>, <<"float">>, <<"None">>}
                ELSE IF \E i \in 1..Len(components) : components[i] = <<"Int">>
                THEN {<<"int">>, <<"None">>}
                ELSE {}
    IN SelectSeq(components, LAMBDA c : c \notin drop)

\* "Remove some redundant types": components is a sequence of rendered members
RemoveRedundant(components) ==
    LET drop == IF \E i \in 1..Len(components) : components[i] = <<"Float">>
                THEN {<<"Int">>, <<"int">>, <<"float">>, <<"None">>}
                ELSE IF \E i \in 1..Len(components) : components[i] = <<"Int">>
                THEN {<<"int">>, <<"None">>}
                ELSE {<<"None">>}
    IN SelectSeq(components, LAMBDA c : c \notin drop)

\* simplify_types of .traces: one type, or a typing.Union of the members
simplify_types(types) ==
    IF Cardinality(types) = 1 THEN types
    ELSE {Union(o) : o \in Orderings(types)}

\* the strings _combine_types can return once simplify_types returned simp;
\* '|'.join(set(...)) iterates the set in an order the build does not fix
_combine_types(simp, doc) ==
    LET arraylike == ~doc.isNone /\ Contains(doc.s, "ArrayLike")
        matrixlike == ~doc.isNone /\ Contains(doc.s, "MatrixLike")
    IN IF ~isUnionType(simp)
       THEN LET r == _get_repr(simp, arraylike, matrixlike)
            IN {IF doc.isNone \/ doc.s = r THEN r ELSE r \o <<"|">> \o doc.s}
       ELSE LET rendered == [i \in 1..Len(simp.args) |->
                                _get_repr(simp.args[i], arraylike, matrixlike)]
                kept == RemoveRedundant(rendered)
                components == IF doc.isNone THEN kept ELSE Append(kept, doc.s)
                members == {components[i] : i \in 1..Len(components)}
            IN {JoinWith("|", o) : o \in Orderings(members)}

(***************************************************************************)
(* Documentation Records: Sections(params, returns, attrs); each section   *)
(* is None or an ordered dict name -> type string.                         *)
(***************************************************************************)
NoneSec == [isNone |-> TRUE, items |-> <<>>]

Sec(items) == [isNone |-> FALSE, items |-> items]

Sections(p, r, a) == [params |-> p, returns |-> r, attrs |-> a]

\* truth value of a section: neither None nor an empty dict
Truthy(sec) == ~sec.isNone /\ Len(sec.items) > 0

\* line 97: the record of an object without documentation
NoDoc == Sections(NoneSec, NoneSec, NoneSec)

\* what NumpyDocstringParser.parse can return for the docstrings of the walk
DocRecords ==
    { NoDoc,
      Sections(Sec(<<>>), NoneSec, NoneSec),
      Sections(Sec(<< <<"x", "int">> >>), Sec(<< <<"r", "float">> >>),
               Sec(<< <<"a", "str">> >>)),
      Sections(NoneSec, Sec(<< <<"r1", "int">>, <<"r2", "str">> >>), NoneSec) }

\* inspect.Signature as the trace loader returns it, or None
NoSig == [isNone |-> TRUE, parameters |-> <<>>, _return_annotation |-> Empty]

Sig(ps, r) == [isNone |-> FALSE, parameters |-> ps, _return_annotation |-> r]

SigChoices ==
    { NoSig,
      Sig(<< <<"x", np_int64>> >>, np_float64),
      Sig(<< <<"x", Empty>> >>, Empty) }

ModNames == <<"m1", "m2", "m3", "m4">>

ClassNames == {"C"}

FunctionNames == {"f", "_h", "__init__"}

ParamNames == {"x", "y"}

\* name.startswith('_')
StartsWithUnderscore(name) == name \in {"_h", "__init__"}

\* name.startswith('__')
StartsWithDunder(name) == name \in {"__init__"}

(***************************************************************************)
(* BaseTransformer: the context stack and its level predicates.            *)
(***************************************************************************)
Frame(kind, name, sig) == [kind |-> kind, name |-> name, sig |-> sig]

\* self.context(), the names of the stack (joined by '.' in the program)
context(stk) == [i \in 1..Len(stk) |-> stk[i].name]

at_top_level_class_level(stk) == Len(stk) = 1 /\ stk[1].kind = "class"

at_top_level_function_level(stk) == Len(stk) = 1 /\ stk[1].kind = "function"

at_top_level_class_method_level(stk) ==
    Len(stk) = 2 /\ stk[1].kind = "class" /\ stk[2].kind = "function"

modname == ModNames[modIdx]

(***************************************************************************)
(* AnalyzingTransformer helpers                                            *)
(***************************************************************************)
\* _update_fullmap: section[f'{context}.{name}'] = typ for every item
_update_fullmap(section, items, ctx) ==
    IF Truthy(items)
    THEN [key \in DOMAIN section \cup {ctx \o <<items.items[i][1]>> : i \in 1..Len(items.items)} |->
            IF \E i \in 1..Len(items.items) : key = ctx \o <<items.items[i][1]>>
            THEN <<Lookup(items.items, Last(key))>>
            ELSE section[key]]
    ELSE section

\* _update_full_context: the value of _fullmap afterwards
_update_full_context(full, sections, ctx) ==
    LET fullcontext == <<modname>> \o ctx
        types == Values(sections.returns.items)
    IN [params |-> _update_fullmap(full.params, sections.params, fullcontext),
        attrs |-> _update_fullmap(full.attrs, sections.attrs, fullcontext),
        returns |->
            IF sections.returns.isNone THEN full.returns
            ELSE IF Len(types) = 1
            THEN Put(full.returns, ctx, <<types[1]>>)
            ELSE IF Len(types) > 1
            THEN Put(full.returns, ctx,
                     <<"tuple[">> \o JoinWith(",", [i \in 1..Len(types) |-> <<types[i]>>])
                                  \o <<"]">>)
            ELSE full.returns]

\* counter[typ] += 1 for every value of a section that is neither None nor empty
Count(counter, sec) ==
    IF Truthy(sec)
    THEN [typ \in DOMAIN counter \cup {sec.items[i][2] : i \in 1..Len(sec.items)} |->
            (IF typ \in DOMAIN counter THEN counter[typ] ELSE 0) + CountOf(sec.items, typ)]
    ELSE counter

\* _analyze_obj: the counters after counting the record rtn
_analyze_obj(cnt, rtn) ==
    [params |-> Count(cnt.params, rtn.params),
     returns |-> Count(cnt.returns, rtn.returns),
     attrs |-> Count(cnt.attrs, rtn.attrs)]

IsSkipped_NoSkip(name) == FALSE

\* line 141: single-underscore helpers are not analysed
IsSkipped(name) == StartsWithUnderscore(name) /\ ~StartsWithDunder(name)

\* line 169: the constructor keeps its own record
KeepsOwnDocs(docs) == Truthy(docs.params)

\* multimap[typ].add(annotation)
AddTrace(multimap, typ, annotation) ==
    Put(multimap, typ,
        (IF typ \in DOMAIN multimap THEN multimap[typ] ELSE {}) \cup {annotation})

HasKey(items, name) == \E i \in 1..Len(items) : items[i][1] = name

EmptySections == Sections(EmptyMap, EmptyMap, EmptyMap)

NoLast == [op |-> "init", name |-> "", ctx |-> <<>>, method |-> FALSE, own |-> NoDoc]

\* _analyze constructs the transformer of the first module
InitTransformer ==
    /\ modIdx = 1
    /\ stack = <<>>
    /\ skipChildren = FALSE
    /\ _docs = EmptyMap
    /\ _classname = ""
    /\ parentObj = FALSE
    /\ _trace_sig = NoSig
    /\ docstrings = (ModNames[1] :> EmptySections)
    /\ _fullmap = EmptySections
    /\ imports = EmptyMap
    /\ nodes = 1
    /\ last = NoLast

\* analyze_module: the State of a package pass
InitState ==
    /\ counters = EmptySections
    /\ trace_param_types = EmptyMap
    /\ trace_return_types = EmptyMap

\* the traversal may descend: the last visit did not return False
CanVisit == ~skipChildren /\ nodes < MaxNodes

\* _analyze for the next module of the package: a new AnalyzingTransformer
NextModule ==
    /\ stack = <<>>
    /\ modIdx < Len(ModNames)
    /\ nodes < MaxNodes
    /\ nodes' = nodes + 1
    /\ modIdx' = modIdx + 1
    /\ _docs' = EmptyMap
    /\ _classname' = ""
    /\ parentObj' = FALSE
    /\ _trace_sig' = NoSig
    /\ docstrings' = Put(docstrings, ModNames[modIdx + 1], EmptySections)
    /\ last' = [NoLast EXCEPT !.op = "_analyze"]
    /\ UNCHANGED <<stack, skipChildren, counters, trace_param_types,
                   trace_return_types, _fullmap, imports>>
    /\ UNCHANGED <<combineVars, postVars>>

\* visit_ClassDef; resolved: get_top_level_obj found the class, d: its parsed docstring
visit_ClassDef(name, resolved, d) ==
    /\ CanVisit
    /\ Len(stack) > 0 => Last(stack).kind # "param"
    /\ LET stk == Append(stack, Frame("class", name, NoSig))
           ctx == context(stk)
       IN /\ stack' = stk
          /\ IF at_top_level_class_level(stk)
             THEN /\ _classname' = name
                  /\ imports' = Put(imports, name, modname)
                  /\ parentObj' = resolved
                  /\ counters' = _analyze_obj(counters, d)
                  /\ _docs' = Put(_docs, ctx, d)
                  /\ _fullmap' = _update_full_context(_fullmap, d, ctx)
             ELSE /\ ~resolved
                  /\ UNCHANGED <<_classname, imports, parentObj, counters, _docs, _fullmap>>
          /\ last' = [NoLast EXCEPT !.op = "visit_ClassDef", !.name = name, !.ctx = ctx]
    /\ nodes' = nodes + 1
    /\ UNCHANGED <<modIdx, skipChildren, _trace_sig, docstrings,
                   trace_param_types, trace_return_types>>
    /\ UNCHANGED <<combineVars, postVars>>

\* visit_FunctionDef; found: the live object was resolved, d: its parsed docstring,
\* sig: what the trace loader returns for the symbol
visit_FunctionDef(name, found, d, sig) ==
    /\ CanVisit
    /\ Len(stack) > 0 => Last(stack).kind # "param"
    /\ nodes' = nodes + 1
    /\ LET outer_context == context(stack)
           pushed == Append(stack, Frame("function", name, NoSig))
           toplevel == at_top_level_function_level(pushed)
           method == _classname # "" /\ at_top_level_class_method_level(pushed)
           resolves == toplevel \/ (method /\ parentObj /\ found)
           newsig == IF resolves THEN sig ELSE _trace_sig
           stk == Append(stack, Frame("function", name, IF resolves THEN sig ELSE NoSig))
           ctx == context(stk)
           docs == IF found /\ (toplevel \/ (method /\ parentObj)) THEN d ELSE NoDoc
           docs1 == Put(_docs, ctx, docs)
           full1 == _update_full_context(_fullmap, docs, ctx)
       IN IF IsSkipped(name)
          THEN /\ ~found /\ d = NoDoc /\ sig = NoSig
               /\ stack' = Append(stack, Frame("function", name, NoSig))
               /\ skipChildren' = TRUE
               /\ last' = [NoLast EXCEPT !.op = "visit_FunctionDef", !.name = name,
                                          !.ctx = ctx]
               /\ UNCHANGED <<_docs, _trace_sig, counters, _fullmap>>
          ELSE /\ found \/ d = NoDoc
               /\ resolves \/ sig = NoSig
               /\ (toplevel \/ (method /\ parentObj)) \/ ~found
               /\ stack' = stk
               /\ skipChildren' = FALSE
               /\ _trace_sig' = newsig
               /\ counters' = _analyze_obj(counters, docs)
               /\ last' = [op |-> "visit_FunctionDef", name |-> name, ctx |-> ctx,
                           method |-> at_top_level_class_method_level(stk), own |-> docs]
               /\ IF name = "__init__" /\ ~KeepsOwnDocs(docs)
                  THEN IF outer_context \in DOMAIN _docs
                       THEN /\ _docs' = Put(docs1, ctx, _docs[outer_context])
                            /\ _fullmap' = _update_full_context(full1, _docs[outer_context], ctx)
                       ELSE /\ _docs' = Remove(docs1, ctx)
                            /\ _fullmap' = full1
                  ELSE /\ _docs' = docs1
                       /\ _fullmap' = full1
    /\ UNCHANGED <<modIdx, _classname, parentObj, docstrings, trace_param_types,
                   trace_return_types, imports>>
    /\ UNCHANGED <<combineVars, postVars>>

\* leave_FunctionDef, also called for a function whose visit returned False
leave_FunctionDef ==
    /\ Len(stack) > 0
    /\ Last(stack).kind = "function"
    /\ LET ctx == context(stack)
           hasReturns == ctx \in DOMAIN _docs /\ ~_docs[ctx].returns.isNone
           returns == _docs[ctx].returns.items
       IN /\ docstrings' =
                IF hasReturns
                THEN [docstrings EXCEPT ![modname].returns = Put(@, ctx, returns)]
                ELSE docstrings
          /\ trace_return_types' =
                IF /\ hasReturns
                   /\ ~_trace_sig.isNone
                   /\ _trace_sig._return_annotation # Empty
                   /\ Len(returns) = 1
                THEN AddTrace(trace_return_types, returns[1][2],
                              _trace_sig._return_annotation)
                ELSE trace_return_types
          /\ last' = [NoLast EXCEPT !.op = "leave_FunctionDef",
                                    !.name = Last(stack).name, !.ctx = ctx]
    /\ _trace_sig' = NoSig
    /\ stack' = Front(stack)
    /\ skipChildren' = FALSE
    /\ UNCHANGED <<modIdx, _docs, _classname, parentObj, counters,
                   trace_param_types, _fullmap, imports, nodes>>
    /\ UNCHANGED <<combineVars, postVars>>

\* BaseTransformer.leave_ClassDef
leave_ClassDef ==
    /\ Len(stack) > 0
    /\ Last(stack).kind = "class"
    /\ stack' = Front(stack)
    /\ last' = [NoLast EXCEPT !.op = "leave_ClassDef", !.name = Last(stack).name,
                              !.ctx = context(stack)]
    /\ UNCHANGED <<modIdx, skipChildren, _docs, _classname, parentObj, _trace_sig,
                   docstrings, counters, trace_param_types, trace_return_types,
                   _fullmap, imports, nodes>>
    /\ UNCHANGED <<combineVars, postVars>>

\* visit_Param: a parameter of a function, or of a lambda anywhere in the source
visit_Param(name) ==
    /\ CanVisit
    /\ nodes' = nodes + 1
    /\ LET parent_context == context(stack)
           stk == Append(stack, Frame("param", name, NoSig))
           documented == /\ parent_context \in DOMAIN _docs
                         /\ Truthy(_docs[parent_context].params)
                         /\ HasKey(_docs[parent_context].params.items, name)
           ptype == Lookup(_docs[parent_context].params.items, name)
           traced == /\ ~_trace_sig.isNone
                     /\ HasKey(_trace_sig.parameters, name)
                     /\ Lookup(_trace_sig.parameters, name) # Empty
       IN /\ stack' = stk
          /\ docstrings' =
                IF documented
                THEN [docstrings EXCEPT ![modname].params = Put(@, context(stk), ptype)]
                ELSE docstrings
          /\ trace_param_types' =
                IF documented /\ traced
                THEN AddTrace(trace_param_types, ptype, Lookup(_trace_sig.parameters, name))
                ELSE trace_param_types
          /\ last' = [NoLast EXCEPT !.op = "visit_Param", !.name = name,
                                    !.ctx = context(stk)]
    /\ UNCHANGED <<modIdx, skipChildren, _docs, _classname, parentObj, _trace_sig,
                   counters, trace_return_types, _fullmap, imports>>
    /\ UNCHANGED <<combineVars, postVars>>

\* BaseTransformer.leave_Param
leave_Param ==
    /\ Len(stack) > 0
    /\ Last(stack).kind = "param"
    /\ stack' = Front(stack)
    /\ last' = [NoLast EXCEPT !.op = "leave_Param", !.name = Last(stack).name,
                              !.ctx = context(stack)]
    /\ UNCHANGED <<modIdx, skipChildren, _docs, _classname, parentObj, _trace_sig,
                   docstrings, counters, trace_param_types, trace_return_types,
                   _fullmap, imports, nodes>>
    /\ UNCHANGED <<combineVars, postVars>>

VisitClass == \E name \in ClassNames, resolved \in BOOLEAN, d \in DocRecords :
                  /\ resolved \/ d = NoDoc
                  /\ visit_ClassDef(name, resolved, d)

VisitFunction == \E name \in FunctionNames, found \in BOOLEAN, d \in DocRecords,
                    sig \in SigChoices : visit_FunctionDef(name, found, d, sig)

VisitParam == \E name \in ParamNames : visit_Param(name)

NextWalk ==
    \/ NextModule
    \/ VisitClass
    \/ VisitFunction
    \/ VisitParam
    \/ leave_FunctionDef
    \/ leave_ClassDef
    \/ leave_Param

(***************************************************************************)
(* _post_process                                                           *)
(***************************************************************************)
SectionNames == <<"params", "returns", "attrs">>

RawTypes == {"int", "array-like"}

\* a Counter over RawTypes: only positive counts are keys
CounterChoices ==
    {[typ \in D |-> c[typ]] : D \in SUBSET RawTypes, c \in [RawTypes -> 1..MaxCount]}

\* Known-Type Maps a package can come with
KnownMapChoices ==
    { EmptySections,
      Sections(("int" :> <<"Int">>), ("array-like" :> <<"ArrayLike">>), EmptyMap),
      Sections(("int" :> <<"Int">>) @@ ("array-like" :> <<"ArrayLike">>),
               ("int" :> <<"Int">>) @@ ("array-like" :> <<"ArrayLike">>),
               ("int" :> <<"Int">>) @@ ("array-like" :> <<"ArrayLike">>)) }

\* _combine_types is not running
IdleCombine ==
    /\ sigtype = {}
    /\ doctype = NoneStr
    /\ simplified = Empty
    /\ combined = <<>>
    /\ cpc = "idle"

\* _post_process is not running
IdlePost ==
    /\ maps = EmptySections
    /\ trivialTypes = {}
    /\ dump_all = TRUE
    /\ include_counts = TRUE
    /\ results = Sections(<<>>, <<>>, <<>>)
    /\ totals = [trivial |-> 0, mapped |-> 0, missed |-> 0]
    /\ trivials = EmptyMap
    /\ processed = {}
    /\ calls = [normalize_type |-> {}, _combine_types |-> {}, is_trivial |-> {}]
    /\ saved = EmptySections
    /\ ppc = "idle"

\* the state a package walk leaves behind, the arguments and the loaded maps
InitPost ==
    /\ InitTransformer
    /\ counters \in [params : CounterChoices, returns : CounterChoices,
                      attrs : CounterChoices]
    /\ trace_param_types = ("array-like" :> {np_ndarray, T_NoneType})
    /\ trace_return_types = ("int" :> {np_int64})
    /\ maps \in KnownMapChoices
    /\ trivialTypes \in SUBSET RawTypes
    /\ dump_all \in BOOLEAN
    /\ include_counts \in BOOLEAN
    /\ results = Sections(<<>>, <<>>, <<>>)
    /\ totals = [trivial |-> 0, mapped |-> 0, missed |-> 0]
    /\ trivials = EmptyMap
    /\ processed = {}
    /\ calls = [normalize_type |-> {}, _combine_types |-> {}, is_trivial |-> {}]
    /\ saved = EmptySections
    /\ ppc = "loop"
    /\ IdleCombine

\* normalize_type of .type_normalizer: a canonical string, or None when the
\* phrase is not recognised
normalize_type(typ) == IF typ = "int" THEN Str(<<"int">>) ELSE NoneStr

\* is_trivial of .type_normalizer
is_trivial(typ) == typ \in trivialTypes

IsMapped_NeverShortCircuits(typ, map) == FALSE

\* line 306: the raw type is a key of the section's Known-Type Map
IsMapped(typ, map) == typ \in DOMAIN map

Suppressed_IgnoresDumpAll(trivial) == trivial

\* line 320: a trivial type is left out of the report
Suppressed(trivial) == ~dump_all /\ trivial

Tally_DropsDumpedTrivial(t, cnt, mapped, trivial) ==
    IF mapped THEN [t EXCEPT !.mapped = @ + cnt]
    ELSE IF ~dump_all /\ trivial THEN [t EXCEPT !.trivial = @ + cnt]
    ELSE IF trivial THEN t
    ELSE [t EXCEPT !.missed = @ + cnt]

\* lines 307, 322, 324: the totals after one raw type with count cnt
Tally(t, cnt, mapped, trivial) ==
    IF mapped THEN [t EXCEPT !.mapped = @ + cnt]
    ELSE IF Suppressed(trivial) THEN [t EXCEPT !.trivial = @ + cnt]
    ELSE [t EXCEPT !.missed = @ + cnt]

\* lines 325-328: one report line
ReportLine(trivial, cnt, typ, normtype) ==
    (IF trivial THEN <<"@">> ELSE <<>>)
    \o (IF include_counts THEN <<ToString(cnt)>> ELSE <<>>)
    \o <<"#", typ, "#">> \o normtype \o <<"\n">>

\* lines 310-314: the traced types recorded for the raw type, or None ({})
SigTypeFor(section, typ) ==
    IF section = "params" /\ typ \in DOMAIN trace_param_types
    THEN trace_param_types[typ]
    ELSE IF section = "returns" /\ typ \in DOMAIN trace_return_types
    THEN trace_return_types[typ]
    ELSE {}

\* lines 315-318: the strings normtype can end up as
NormTypes(typ, norm, sig) ==
    IF norm.isNone
    THEN IF sig = {} THEN {<<typ>>}
         ELSE UNION {_combine_types(simp, NoneStr) : simp \in simplify_types(sig)}
    ELSE IF sig # {}
    THEN UNION {_combine_types(simp, norm) : simp \in simplify_types(sig)}
    ELSE {norm.s}

\* the section the outer loop is in: the first one with entries left
SectionIndex(section) == CHOOSE i \in 1..3 : SectionNames[i] = section

Pending(section) == {typ \in DOMAIN counters[section] : <<section, typ>> \notin processed}

\* one iteration of the loops of lines 302-328, in most_common() order
PostProcessEntry(section, typ) ==
    /\ ppc = "loop"
    /\ typ \in Pending(section)
    /\ \A i \in 1..(SectionIndex(section) - 1) : Pending(SectionNames[i]) = {}
    /\ \A other \in Pending(section) : counters[section][other] <= counters[section][typ]
    /\ LET cnt == counters[section][typ]
           mapped == IsMapped(typ, maps[section])
           sig == SigTypeFor(section, typ)
           trivial == is_trivial(typ)
       IN /\ processed' = processed \cup {<<section, typ>>}
          /\ totals' = Tally(totals, cnt, mapped, trivial)
          /\ IF mapped
             THEN UNCHANGED <<results, trivials, calls>>
             ELSE \E normtype \in NormTypes(typ, normalize_type(typ), sig) :
                    /\ calls' = [normalize_type |-> calls.normalize_type \cup {<<section, typ>>},
                                 _combine_types |-> calls._combine_types \cup
                                     (IF sig # {} THEN {<<section, typ>>} ELSE {}),
                                 is_trivial |-> calls.is_trivial \cup {<<section, typ>>}]
                    /\ IF Suppressed(trivial)
                       THEN /\ trivials' = Put(trivials, typ, normtype)
                            /\ UNCHANGED results
                       ELSE /\ results' = [results EXCEPT ![section] =
                                   Append(@, ReportLine(trivial, cnt, typ, normtype))]
                            /\ UNCHANGED trivials
    /\ UNCHANGED <<maps, trivialTypes, dump_all, include_counts, saved, ppc>>
    /\ UNCHANGED walkVars
    /\ UNCHANGED combineVars

\* lines 329-340: the summary is printed, the full-map saved, the report returned
PostProcessFinish ==
    /\ ppc = "loop"
    /\ \A i \in 1..3 : Pending(SectionNames[i]) = {}
    /\ saved' = _fullmap
    /\ ppc' = "done"
    /\ UNCHANGED <<maps, trivialTypes, dump_all, include_counts, results, totals,
                   trivials, processed, calls>>
    /\ UNCHANGED walkVars
    /\ UNCHANGED combineVars

NextPost ==
    \/ \E section \in {"params", "returns", "attrs"}, typ \in RawTypes :
           PostProcessEntry(section, typ)
    \/ PostProcessFinish

(***************************************************************************)
(* _combine_types on bounded inputs                                        *)
(***************************************************************************)
TypeUniverse ==
    { T_int, T_float, T_NoneType, T_str, np_int64, np_float64, np_ndarray,
      Generic("List", <<T_int>>),
      Generic("Dict", <<T_str, np_ndarray>>),
      Generic("Tuple", <<Union(<<pd_Series, T_NoneType>>)>>) }

DocTypes ==
    { NoneStr, Str(<<"str">>), Str(<<"array-like">>), Str(<<"ArrayLike">>),
      Str(<<"MatrixLike">>) }

InitCombine ==
    /\ sigtype \in {S \in SUBSET TypeUniverse : Cardinality(S) \in 1..MaxSigTypes}
    /\ doctype \in DocTypes
    /\ simplified = Empty
    /\ combined = <<>>
    /\ cpc = "call"
    /\ InitTransformer
    /\ InitState
    /\ IdlePost

\* one call _combine_types(sigtype, doctype)
CombineTypes ==
    /\ cpc = "call"
    /\ \E simp \in simplify_types(sigtype) :
          /\ simplified' = simp
          /\ combined' \in _combine_types(simp, doctype)
    /\ cpc' = "done"
    /\ UNCHANGED <<sigtype, doctype>>
    /\ UNCHANGED <<walkVars, postVars>>

vars == <<walkVars, combineVars, postVars>>

SpecCombine == InitCombine /\ [][CombineTypes]_vars

InitWalk == InitTransformer /\ InitState /\ IdleCombine /\ IdlePost

SpecWalk == InitWalk /\ [][NextWalk]_vars

SpecPost == InitPost /\ [][NextPost]_vars

(***************************************************************************)
(* Properties of the walker                                                *)
(***************************************************************************)
C_AtConstructor ==
    last.op = "visit_FunctionDef" /\ last.name = "__init__" /\ last.method

\* C1: after visit_FunctionDef of __init__ of a top-level class, the record under
\* the constructor's address is the constructor's own record whenever that record
\* has a params section (params is not None, even if empty); only when params is
\* None is the owning class's record stored there instead.
C1_OwnRecordUnlessNoParamsSection ==
    C_AtConstructor =>
        /\ last.ctx \in DOMAIN _docs
        /\ _docs[last.ctx] = IF ~last.own.params.isNone
                             THEN last.own
                             ELSE _docs[Front(last.ctx)]

\* C2: for a top-level class without documentation whose __init__ is undocumented
\* too, after visit_FunctionDef of that __init__ the constructor's address is not a
\* key of the record table.
C2_NoRecordForUndocumentedConstructor ==
    (C_AtConstructor /\ last.own = NoDoc /\ _docs[Front(last.ctx)] = NoDoc)
        => last.ctx \notin DOMAIN _docs

C6_Helpers == {"_h"}

C6_Keys ==
    UNION {DOMAIN docstrings[m].params \cup DOMAIN docstrings[m].returns
             \cup DOMAIN docstrings[m].attrs : m \in DOMAIN docstrings}
    \cup DOMAIN _docs
    \cup DOMAIN _fullmap.params \cup DOMAIN _fullmap.returns \cup DOMAIN _fullmap.attrs

C6_NoHelperKey == \A key \in C6_Keys : \A i \in 1..Len(key) : key[i] \notin C6_Helpers

C6_InHelper(stk) ==
    Len(stk) > 0 /\ Last(stk).kind = "function" /\ Last(stk).name \in C6_Helpers

C6_Results ==
    <<docstrings, _docs, _fullmap, counters, trace_param_types, trace_return_types>>

C6_Step ==
    /\ (C6_InHelper(stack') /\ Len(stack') > Len(stack))
          => (Front(stack') = stack /\ C6_Results' = C6_Results)
    /\ C6_InHelper(stack)
          => (stack' = Front(stack) /\ C6_Results' = C6_Results)

C8_ReturnCorrelatedOnLeave ==
    [][ ( /\ Len(stack) > 0
          /\ Last(stack).kind = "function"
          /\ stack' = Front(stack)
          /\ at_top_level_function_level(stack) \/ at_top_level_class_method_level(stack)
          /\ ~Last(stack).sig.isNone
          /\ Last(stack).sig._return_annotation # Empty
          /\ context(stack) \in DOMAIN _docs
          /\ ~_docs[context(stack)].returns.isNone
          /\ Len(_docs[context(stack)].returns.items) = 1 )
        => LET rtype == _docs[context(stack)].returns.items[1][2]
           IN /\ rtype \in DOMAIN trace_return_types'
              /\ Last(stack).sig._return_annotation \in trace_return_types'[rtype]
      ]_vars

\* C9: every full-map key, in all three sections, is module-qualified (it starts
\* with the name of the module it was registered from), so that same-named symbols
\* of different modules never share a key.
C9_FullmapKeysModuleQualified ==
    \A key \in DOMAIN _fullmap.params \cup DOMAIN _fullmap.attrs \cup DOMAIN _fullmap.returns :
        key[1] \in {ModNames[i] : i \in 1..Len(ModNames)}

(***************************************************************************)
(* Properties of _combine_types                                            *)
(***************************************************************************)
C_Merged(types) == cpc = "done" /\ doctype.isNone /\ sigtype = types

\* C3: with no documented string, the traced set {int, float, None} combines to
\* exactly 'Float' and the traced set {int, None} to exactly 'Int'.
C3_BuiltinScalarsAbsorbed ==
    /\ C_Merged({T_int, T_float, T_NoneType}) => combined = <<"Float">>
    /\ C_Merged({T_int, T_NoneType}) => combined = <<"Int">>

\* C3 as amended: with no documented string, None is dropped from a union of
\* builtin scalars and the scalars keep their own names: {int, float, None}
\* combines to 'int|float' or 'float|int', {int, None} to 'int'. 'Float' and
\* 'Int' result when the numpy 64-bit types are traced: {int64, float64, None}
\* combines to 'Float', {int64, None} to 'Int'.
C3_NoneDroppedNamesKept ==
    /\ C_Merged({T_int, T_float, T_NoneType})
          => combined \in {<<"int", "|", "float">>, <<"float", "|", "int">>}
    /\ C_Merged({T_int, T_NoneType}) => combined = <<"int">>
    /\ C_Merged({np_int64, np_float64, T_NoneType}) => combined = <<"Float">>
    /\ C_Merged({np_int64, T_NoneType}) => combined = <<"Int">>

C3_Witness ==
    C_Merged({T_int, T_float, T_NoneType}) /\ combined = <<"float", "|", "int">>

\* C7: when the documented string contains 'ArrayLike', no array type is rendered
\* by its own name at any depth of the combined string (no ndarray, Series or
\* list[...]); when it contains 'MatrixLike', no matrix type is.
C7_ContextFlagsAtEveryLevel ==
    (cpc = "done" /\ ~doctype.isNone) =>
        /\ Contains(doctype.s, "ArrayLike")
              => \A i \in 1..Len(combined) : combined[i] \notin {"ndarray", "Series", "list"}
        /\ Contains(doctype.s, "MatrixLike")
              => \A i \in 1..Len(combined) :
                    combined[i] \notin {"ndarray", "DataFrame", "spmatrix",
                                        "csr_matrix", "csc_matrix"}

(***************************************************************************)
(* Properties of _post_process                                             *)
(***************************************************************************)
C_Sections == {SectionNames[i] : i \in 1..3}

C_Entries == {<<sec, typ>> : sec \in C_Sections, typ \in RawTypes}

RECURSIVE C_SumCounts(_)
C_SumCounts(S) ==
    IF S = {} THEN 0
    ELSE LET p == CHOOSE x \in S : TRUE
         IN counters[p[1]][p[2]] + C_SumCounts(S \ {p})

C_Known(p) == p[2] \in DOMAIN maps[p[1]]

\* the raw type of a report line: the field after the first '#'
C_LineRaw(line) ==
    line[1 + CHOOSE i \in 1..Len(line) :
                 line[i] = "#" /\ \A j \in 1..(i-1) : line[j] # "#"]

C_LinesFor(sec, typ) ==
    {i \in 1..Len(results[sec]) : C_LineRaw(results[sec][i]) = typ}

\* C4: a raw type that is a key of a section's Known-Type Map is never passed to
\* normalize_type, _combine_types or is_trivial for that section, gets no report
\* line there, and its count goes to the mapped total and to no other total.
C4_KnownTypeShortCircuit ==
    /\ \A p \in C_Entries : C_Known(p) =>
          /\ p \notin calls.normalize_type \cup calls._combine_types \cup calls.is_trivial
          /\ C_LinesFor(p[1], p[2]) = {}
    /\ totals.mapped = C_SumCounts({p \in processed : C_Known(p)})
    /\ totals.trivial + totals.missed = C_SumCounts({p \in processed : ~C_Known(p)})

C4_Witness ==
    /\ ppc = "done"
    /\ totals.mapped > 0
    /\ totals.missed > 0
    /\ \E p \in processed : C_Known(p) /\ \E q \in processed : ~C_Known(q) /\ q[2] = p[2]

\* C5: an unmapped raw type classified trivial gets, with dump_all=False, no report
\* line in any section and its count in the trivial total; with dump_all=True it
\* gets exactly one line, which starts with '@'. An unmapped raw type that is not
\* trivial gets exactly one line, which does not start with '@'.
C5_TrivialSuppression ==
    /\ \A p \in processed : ~C_Known(p) =>
          IF p[2] \in trivialTypes /\ ~dump_all
          THEN \A sec \in C_Sections : C_LinesFor(sec, p[2]) = {}
          ELSE /\ Cardinality(C_LinesFor(p[1], p[2])) = 1
               /\ \A i \in C_LinesFor(p[1], p[2]) :
                     (results[p[1]][i][1] = "@") <=> (p[2] \in trivialTypes)
    /\ ~dump_all =>
          totals.trivial = C_SumCounts({p \in processed : ~C_Known(p) /\ p[2] \in trivialTypes})

C5_Witness ==
    /\ ppc = "done"
    /\ \E p \in processed : ~C_Known(p) /\ p[2] \in trivialTypes
    /\ \E p \in processed : ~C_Known(p) /\ p[2] \notin trivialTypes
    /\ ~dump_all
    /\ totals.trivial > 1

\* C10: when _post_process finishes, total_mapped + total_trivial + total_missed
\* is the sum of all counts of the three counters, whatever dump_all and
\* include_counts are, and no step of the aggregation changes the counters.
C10_TotalsPartitionCounts ==
    /\ [](ppc = "done" =>
            totals.mapped + totals.trivial + totals.missed
              = C_SumCounts({p \in C_Entries : p[2] \in DOMAIN counters[p[1]]}))
    /\ [][counters' = counters]_vars

C10_Witness ==
    /\ ppc = "done"
    /\ dump_all
    /\ ~include_counts
    /\ totals.mapped > 0
    /\ totals.missed > 2
    /\ \E p \in processed : ~C_Known(p) /\ p[2] \in trivialTypes

====
